---- MODULE Spec2Model ----
(***************************************************************************)
(* Model of python_service/hailo_service.py: HailoService (the Execution   *)
(* Context and the Generation Session, an async generator) and the         *)
(* per-connection loop of WebSocketServer.                                 *)
(*                                                                         *)
(* asyncio runs one task at a time; a task gives up control only at an     *)
(* await that suspends.  Each action below is the code that runs between   *)
(* two suspension points of one task: waiting for a message, suspended in  *)
(* websocket.send, or suspended in asyncio.sleep.  The one block that is   *)
(* split in two is the token loop of a stream=False generation, which      *)
(* holds the event loop from its first pull to its terminal event: while a *)
(* task is in it ("run") no other action is enabled.                       *)
(*                                                                         *)
(* A Python string is a sequence of lexemes (words and the blank " "), so  *)
(* concatenation is \o and str.split() is computed by Split.               *)
(***************************************************************************)
EXTENDS Integers, Sequences, FiniteSets, TLC

VARIABLES
    HAILO_AVAILABLE,   \* module flag: the hailo_platform import succeeded
    vdevice,           \* HailoService.vdevice: None or the device handle
    llm,               \* HailoService.llm: None or an index into handles
    current_model,     \* HailoService.current_model
    handles,           \* the collaborator's LLM objects, in creation order
    pc,                \* per connection: where its task is suspended ("ended": handle_request has returned)
    stream,            \* per connection: chat_completion's stream argument
    gpos,              \* per connection: position inside chat_completion
    events,            \* per connection: events yielded for the request
    sent,              \* per connection: messages websocket.send was given for the request
    handler,           \* per connection: the handler (or except clause) that is running
    failed_sends,      \* history, per connection: websocket.send calls that raised ConnectionClosed
    gen,               \* per connection: the llm.generate() iterator
    word_idx,          \* per connection: index of the mock word last yielded
    token_count,       \* per connection: local token_count
    full_response,     \* per connection: local full_response
    route,             \* history: branch chat_completion took for the request
    produced,          \* history: the tokens the collaborator handed over for the request
    last,              \* history: what the last step did
    last_ok_model,     \* history: M if the latest load_model/release call was a successful load_model(M)
    device_was_ready   \* history: VDevice() succeeded in __init__

vars == <<HAILO_AVAILABLE, vdevice, llm, current_model, handles, pc, stream, gpos,
          events, sent, handler, failed_sends, gen, word_idx, token_count, full_response, route, produced, last,
          last_ok_model, device_was_ready>>

svc_vars == <<vdevice, llm, current_model, handles>>
conn_vars == <<pc, stream, gpos, events, sent, handler, failed_sends, gen, word_idx, token_count, full_response,
               route, produced>>

----------------------------------------------------------------------------
(* Bounds *)

MaxHandles == 2        \* LLM constructions that succeed in one behaviour
MaxTokens == 2         \* longest token sequence the collaborator produces
MaxElapsed == 1        \* largest elapsed time (ns) measured for a generation

Conns == {"c1", "c2"}  \* the open connections
None == "None"
NoHandle == 0          \* self.llm = None (handles are indexed from 1)
Driver == "driver"     \* the embedding program (direct calls of HailoService)

----------------------------------------------------------------------------
(* Configuration: config['hailo']['models'] and the file system *)

models_config ==
    [m \in {"A", "B", "Y", "Z"} |->
        CASE m = "A" -> [hef_path |-> "/a.hef"]
          [] m = "B" -> [hef_path |-> "/b.hef"]
          [] m = "Y" -> [hef_path |-> "/gone.hef"]
          [] m = "Z" -> [hef_path |-> ""]]

PathExists(p) == p \in {"/a.hef", "/b.hef", "."}

\* model names a direct call may carry ("X" is not configured)
ModelNames == {"A", "B", "X", "Y", "Z"}
\* model names a chat/generate request may carry
ReqModels == {"A", "B", "X", "Y", "Z"}

\* the collaborator's output: the i-th token of a generation, and the
\* description of its fault
TokenText == <<"Hel", "lo", ",", " ", "world">>
TokenAt(i) == <<TokenText[i]>>
FaultMsg == <<"generation failed">>

\* a generation as the collaborator will play it: its tokens, then either
\* exhaustion or a raised fault
Scripts == [toks : {[i \in 1..n |-> TokenAt(i)] : n \in 0..MaxTokens}, fault : BOOLEAN]

----------------------------------------------------------------------------
(* Strings *)

mock_response ==
    <<"This", " ", "is", " ", "a", " ", "mock", " ", "response.", " ",
      "Hailo", " ", "platform", " ", "is", " ", "not", " ", "available", " ",
      "or", " ", "model", " ", "not", " ", "loaded.">>

\* str.split(): maximal runs of non-blank lexemes
RECURSIVE SplitFrom(_, _, _, _)
SplitFrom(s, i, cur, acc) ==
    IF i > Len(s) THEN (IF cur = << >> THEN acc ELSE Append(acc, cur))
    ELSE IF s[i] = " "
         THEN SplitFrom(s, i + 1, << >>, IF cur = << >> THEN acc ELSE Append(acc, cur))
         ELSE SplitFrom(s, i + 1, Append(cur, s[i]), acc)

Split(s) == SplitFrom(s, 1, << >>, << >>)

\* ''.join(seq of strings)
RECURSIVE Concat(_)
Concat(ss) == IF ss = << >> THEN << >> ELSE Head(ss) \o Concat(Tail(ss))

----------------------------------------------------------------------------
(* Events (the dicts chat_completion yields).  done is "absent" when the   *)
(* key is not in the dict; stats is << >> when eval_count, eval_duration   *)
(* and total_duration are not in the dict, else the three values.          *)

MockTokenContent(word) == word \o <<" ">>

TokenEvent(content) ==
    [type |-> "token", content |-> content, done |-> "False", stats |-> << >>]

MockCompleteEvent ==
    [type |-> "complete", content |-> mock_response, done |-> "True", stats |-> << >>]

CompleteContent(streamed, full) == IF ~streamed THEN full ELSE << >>

CompleteEvent(streamed, full, count, elapsed) ==
    [type |-> "complete", content |-> CompleteContent(streamed, full), done |-> "True",
     stats |-> <<count, elapsed, elapsed>>]

LoadErrorEvent_unnamed(model) ==
    [type |-> "error", content |-> <<"Failed to load model">>,
     done |-> "absent", stats |-> << >>]

LoadErrorEvent(model) ==
    [type |-> "error", content |-> <<"Failed to load model: ", model>>,
     done |-> "absent", stats |-> << >>]

FaultEvent_complete ==
    [type |-> "complete", content |-> FaultMsg, done |-> "True", stats |-> << >>]

FaultEvent ==
    [type |-> "error", content |-> FaultMsg, done |-> "absent", stats |-> << >>]

----------------------------------------------------------------------------
(* Execution Context: HailoService.load_model and HailoService.release     *)

NoLoad == [name |-> None, ret |-> FALSE, outcome |-> "none",
           was_active |-> None, repeat |-> FALSE]

\* line 53
DeviceUnavailable == ~HAILO_AVAILABLE \/ vdevice = None

AlreadyLoaded_never(model_name) == FALSE

\* line 58
AlreadyLoaded(model_name) == current_model = model_name /\ llm # NoHandle

\* lines 63-66: models_config.get(model_name) is None
NotConfigured(model_name) == model_name \notin DOMAIN models_config

HefMissing_never(model_name) == FALSE

\* lines 68-71
HefMissing(model_name) ==
    LET hef_path == models_config[model_name].hef_path
    IN hef_path = "" \/ ~PathExists(hef_path)

HasPrevious_never == FALSE

\* line 75
HasPrevious == llm # NoHandle

LoadedModelName_stale(model_name) == current_model

\* line 83: the name stored in self.current_model
LoadedModelName(model_name) == model_name

MarkReleased(hs, h) == [hs EXCEPT ![h].released = TRUE]

\* lines 73-88, the try block.  rel_raises: llm.release() raises;
\* rel_done: a release that raised had released the handle all the same;
\* load_raises: LLM(...) raises.
LoadTry(model_name, rel_raises, rel_done, load_raises) ==
    LET rel_call == IF HasPrevious THEN <<[op |-> "llm.release", arg |-> handles[llm].name]>>
                    ELSE << >>
        load_call == <<[op |-> "LLM", arg |-> model_name]>>
    IN  IF HasPrevious /\ rel_raises
        THEN [llm |-> llm, current_model |-> current_model,
              handles |-> IF rel_done THEN MarkReleased(handles, llm) ELSE handles,
              calls |-> rel_call, ret |-> FALSE, outcome |-> "release_raised"]
        ELSE LET hs == IF HasPrevious THEN MarkReleased(handles, llm) ELSE handles
             IN  IF load_raises
                 THEN [llm |-> NoHandle, current_model |-> current_model, handles |-> hs,
                       calls |-> rel_call \o load_call, ret |-> FALSE,
                       outcome |-> "load_raised"]
                 ELSE [llm |-> Len(hs) + 1, current_model |-> LoadedModelName(model_name),
                       handles |-> Append(hs, [name |-> model_name, released |-> FALSE]),
                       calls |-> rel_call \o load_call, ret |-> TRUE,
                       outcome |-> "loaded"]

Untouched(ret, outcome) ==
    [llm |-> llm, current_model |-> current_model, handles |-> handles,
     calls |-> << >>, ret |-> ret, outcome |-> outcome]

\* lines 51-88
load_model(model_name, rel_raises, rel_done, load_raises) ==
    IF DeviceUnavailable THEN Untouched(FALSE, "unavailable")
    ELSE IF AlreadyLoaded(model_name) THEN Untouched(TRUE, "cached")
    ELSE IF NotConfigured(model_name) THEN Untouched(FALSE, "not_configured")
    ELSE IF HefMissing(model_name) THEN Untouched(FALSE, "hef_missing")
    ELSE LoadTry(model_name, rel_raises, rel_done, load_raises)

\* the ways the collaborator can answer the calls load_model(model_name)
\* makes from the current state
LoadChoices(model_name) ==
    IF DeviceUnavailable \/ AlreadyLoaded(model_name) \/ NotConfigured(model_name)
    THEN {[rel_raises |-> FALSE, rel_done |-> FALSE, load_raises |-> FALSE]}
    ELSE IF HefMissing(model_name)
    THEN {[rel_raises |-> FALSE, rel_done |-> FALSE, load_raises |-> FALSE]}
    ELSE {[rel_raises |-> FALSE, rel_done |-> FALSE, load_raises |-> b] : b \in BOOLEAN}
         \cup (IF HasPrevious
                THEN {[rel_raises |-> TRUE, rel_done |-> b, load_raises |-> FALSE] : b \in BOOLEAN}
                ELSE {})

\* what the history variable last records of a load_model call
LoadInfo(model_name, r) ==
    [name |-> model_name, ret |-> r.ret, outcome |-> r.outcome,
     was_active |-> IF llm # NoHandle THEN current_model ELSE None,
     repeat |-> (last_ok_model = model_name)]

\* lines 238-248.  llm_raises: self.llm.release() raises; llm_done: it had
\* released the handle all the same; dev_raises: self.vdevice.release() raises.
release(llm_raises, llm_done, dev_raises) ==
    LET llm_call == IF llm # NoHandle THEN <<[op |-> "llm.release", arg |-> handles[llm].name]>>
                    ELSE << >>
        dev_call == IF vdevice # None THEN <<[op |-> "vdevice.release", arg |-> vdevice]>>
                    ELSE << >>
    IN  IF llm # NoHandle /\ llm_raises
        THEN [llm |-> llm, vdevice |-> vdevice,
              handles |-> IF llm_done THEN MarkReleased(handles, llm) ELSE handles,
              calls |-> llm_call, raised |-> TRUE]
        ELSE [llm |-> NoHandle,
              vdevice |-> IF vdevice # None /\ dev_raises THEN vdevice ELSE None,
              handles |-> IF llm # NoHandle THEN MarkReleased(handles, llm) ELSE handles,
              calls |-> llm_call \o dev_call,
              raised |-> (vdevice # None /\ dev_raises)]

----------------------------------------------------------------------------
(* Generation Session: HailoService.chat_completion, an async generator,   *)
(* and HailoService.text_completion, which wraps it                        *)

Prompt == <<"Why", " ", "is", " ", "the", " ", "sky", " ", "blue">>

\* the 'messages' a chat request carries and the 'prompt' a generate
\* request carries; chat_completion hands the conversation to the
\* collaborator and never looks into it
Conversations ==
    { <<[role |-> "system", content |-> <<"Be", " ", "brief">>],
        [role |-> "user", content |-> Prompt]>> }
Prompts == {Prompt}

NoGen == [h |-> NoHandle, toks |-> << >>, fault |-> FALSE, pos |-> 0]

TextMessages_system(prompt) == <<[role |-> "system", content |-> prompt]>>

\* text_completion line 186
TextMessages(prompt) == <<[role |-> "user", content |-> prompt]>>

\* handle_chat line 306 / text_completion line 186: the conversation
\* chat_completion is given
Messages(request) == request.messages

\* text_completion line 195: yield chunk
Reyield(chunk) == chunk

\* the event handle_chat / handle_generate receives when chat_completion
\* yields ev: via_text is TRUE when text_completion stands in between
Forward(via_text, ev) == IF via_text THEN Reyield(ev) ELSE ev

\* line 102
UseMock == ~HAILO_AVAILABLE \/ llm = NoHandle

\* no task is inside a block that runs without suspending
LoopFree == \A c \in Conns : pc[c] # "run"

----------------------------------------------------------------------------
(* Messages: json.dumps of a dict is the sequence of its <<key, value>>    *)
(* members in insertion order; a key that is not in the dict has no member *)

JsonBool(b) == IF b = "True" THEN "true" ELSE "false"

\* json.dumps(chunk), lines 321 and 340
Encode(ev) ==
    <<<<"type", ev.type>>, <<"content", ev.content>>>>
    \o (IF ev.done = "absent" THEN << >> ELSE <<<<"done", JsonBool(ev.done)>>>>)
    \o (IF ev.stats = << >> THEN << >>
        ELSE <<<<"eval_count", ev.stats[1]>>, <<"eval_duration", ev.stats[2]>>,
               <<"total_duration", ev.stats[3]>>>>)

ErrorMessage(content) == <<<<"type", "error">>, <<"content", content>>>>

InvalidJsonMessage_detail == ErrorMessage(<<"Expecting value: line 1 column 1 (char 0)">>)

\* lines 290-293
InvalidJsonMessage == ErrorMessage(<<"Invalid JSON request">>)

\* lines 283-286
UnknownActionMessage(action) == ErrorMessage(<<"Unknown action: ", action>>)

\* lines 296-299 for a JSON value that is not an object: str(AttributeError)
NotAnObjectMessage == ErrorMessage(<<"'list' object has no attribute 'get'">>)

\* lines 360-364
ModelNotFoundMessage(model_name) == ErrorMessage(<<"Model not found: ", model_name>>)

\* the order of config['hailo']['models'] and the size of each file
ConfigOrder == <<"A", "B", "Y", "Z">>
PathOf(p) == IF p = "" THEN "." ELSE p
FileSize(p) == CASE p = "/a.hef" -> 4096 [] p = "/b.hef" -> 8192 [] OTHER -> 512

\* lines 211-227
list_models ==
    [i \in 1..Len(ConfigOrder) |->
        LET hef_path == models_config[ConfigOrder[i]].hef_path
        IN  [name |-> ConfigOrder[i],
             size |-> IF PathExists(PathOf(hef_path)) THEN FileSize(PathOf(hef_path)) ELSE 0,
             family |-> "unknown", parameter_size |-> "unknown", format |-> "hef"]]

\* lines 197-209: << >> for None, else the one dict
get_model_info(model_name) ==
    IF model_name \notin DOMAIN models_config THEN << >>
    ELSE <<[name |-> model_name, family |-> "unknown", parameter_size |-> "unknown",
            format |-> "hef", hef_path |-> models_config[model_name].hef_path]>>

\* lines 229-236: what get_context_usage can return
UsageAnswers == IF llm # NoHandle /\ HAILO_AVAILABLE THEN {0, 128} ELSE {0}

----------------------------------------------------------------------------
(* Steps of a connection's task                                            *)

Emit_unsent(c, via_text, ev) ==
    /\ events' = [events EXCEPT ![c] = Append(@, Forward(via_text, ev))]
    /\ UNCHANGED sent

\* chat_completion yields ev and the handler hands it to websocket.send
Emit(c, via_text, ev) ==
    /\ events' = [events EXCEPT ![c] = Append(@, Forward(via_text, ev))]
    /\ sent' = [sent EXCEPT ![c] = Append(@, Encode(Forward(via_text, ev)))]

\* the first yield of a request
EmitFirst(c, via_text, ev) ==
    /\ events' = [events EXCEPT ![c] = <<Forward(via_text, ev)>>]
    /\ sent' = [sent EXCEPT ![c] = <<Encode(Forward(via_text, ev))>>]

EmitNothing(c) ==
    /\ events' = [events EXCEPT ![c] = << >>]
    /\ sent' = [sent EXCEPT ![c] = << >>]

Step(actor, op, load, calls) ==
    last' = [actor |-> actor, op |-> op, load |-> load, calls |-> calls]

\* the generator has returned: its frame is gone (gen, token_count,
\* full_response, the loop index), the handler returns and handle_request
\* awaits the next message
Return(c) ==
    /\ pc' = [pc EXCEPT ![c] = "recv"]
    /\ gpos' = [gpos EXCEPT ![c] = "done"]
    /\ gen' = [gen EXCEPT ![c] = NoGen]
    /\ word_idx' = [word_idx EXCEPT ![c] = 0]
    /\ token_count' = [token_count EXCEPT ![c] = 0]
    /\ full_response' = [full_response EXCEPT ![c] = << >>]
    /\ handler' = [handler EXCEPT ![c] = "none"]

\* lines 146-148 run to exhaustion without a yield
RECURSIVE Consume(_, _, _)
Consume(toks, count, full) ==
    IF toks = << >> THEN [count |-> count, full |-> full]
    ELSE Consume(Tail(toks), count + 1, full \o Head(toks))

\* lines 101-121 up to the first yield
MockStart(c, request) ==
    /\ route' = [route EXCEPT ![c] = "mock"]
    /\ IF request.stream
       THEN LET words == Split(mock_response)
            IN  IF words = << >>
                THEN /\ pc' = [pc EXCEPT ![c] = "recv"]
                     /\ gpos' = [gpos EXCEPT ![c] = "done"]
                     /\ EmitNothing(c)
                     /\ word_idx' = [word_idx EXCEPT ![c] = 0]
                ELSE /\ pc' = [pc EXCEPT ![c] = "send"]
                     /\ gpos' = [gpos EXCEPT ![c] = "mock_yielded"]
                     /\ EmitFirst(c, request.via_text,
                                  TokenEvent(MockTokenContent(words[1])))
                     /\ word_idx' = [word_idx EXCEPT ![c] = 1]
       ELSE /\ pc' = [pc EXCEPT ![c] = "send"]
            /\ gpos' = [gpos EXCEPT ![c] = "terminal"]
            /\ EmitFirst(c, request.via_text, MockCompleteEvent)
            /\ word_idx' = [word_idx EXCEPT ![c] = 0]
    /\ gen' = [gen EXCEPT ![c] = NoGen]
    /\ token_count' = [token_count EXCEPT ![c] = 0]
    /\ full_response' = [full_response EXCEPT ![c] = << >>]
    /\ produced' = [produced EXCEPT ![c] = << >>]
    /\ Step(c, request.action, NoLoad, << >>)
    /\ UNCHANGED <<svc_vars, last_ok_model>>

\* lines 123-129: load_model returned False
LoadFailed(c, request, r) ==
    /\ ~r.ret
    /\ route' = [route EXCEPT ![c] = "load_failed"]
    /\ EmitFirst(c, request.via_text, LoadErrorEvent(request.model))
    /\ pc' = [pc EXCEPT ![c] = "send"]
    /\ gpos' = [gpos EXCEPT ![c] = "terminal"]
    /\ gen' = [gen EXCEPT ![c] = NoGen]
    /\ token_count' = [token_count EXCEPT ![c] = 0]
    /\ full_response' = [full_response EXCEPT ![c] = << >>]
    /\ produced' = [produced EXCEPT ![c] = << >>]
    /\ Step(c, request.action, LoadInfo(request.model, r), r.calls)

\* lines 131-167 up to the first suspension: load_model returned True.
\* With stream = False the loop of lines 146-148 has no await: the task
\* keeps running ("run") until the loop is over.
Generate(c, request, r) ==
    /\ r.ret
    /\ route' = [route EXCEPT ![c] = "real"]
    /\ Step(c, request.action, LoadInfo(request.model, r),
            Append(r.calls, [op |-> "generate", arg |-> Messages(request)]))
    /\ \E script \in Scripts :
         IF ~request.stream
         THEN \* the loop has been entered
              /\ gen' = [gen EXCEPT ![c] = [h |-> r.llm, toks |-> script.toks,
                                            fault |-> script.fault, pos |-> 0]]
              /\ token_count' = [token_count EXCEPT ![c] = 0]
              /\ full_response' = [full_response EXCEPT ![c] = << >>]
              /\ produced' = [produced EXCEPT ![c] = << >>]
              /\ EmitNothing(c)
              /\ gpos' = [gpos EXCEPT ![c] = "real_blocking"]
              /\ pc' = [pc EXCEPT ![c] = "run"]
         ELSE IF script.toks # << >>
         THEN \* first token: lines 147-155
              /\ gen' = [gen EXCEPT ![c] = [h |-> r.llm, toks |-> script.toks,
                                            fault |-> script.fault, pos |-> 1]]
              /\ token_count' = [token_count EXCEPT ![c] = 1]
              /\ full_response' = [full_response EXCEPT ![c] = script.toks[1]]
              /\ EmitFirst(c, request.via_text, TokenEvent(script.toks[1]))
              /\ produced' = [produced EXCEPT ![c] = <<script.toks[1]>>]
              /\ gpos' = [gpos EXCEPT ![c] = "real_yielded"]
              /\ pc' = [pc EXCEPT ![c] = "send"]
         ELSE \* the loop ends without a token
              /\ gen' = [gen EXCEPT ![c] = [h |-> r.llm, toks |-> script.toks,
                                            fault |-> script.fault, pos |-> 0]]
              /\ token_count' = [token_count EXCEPT ![c] = 0]
              /\ full_response' = [full_response EXCEPT ![c] = << >>]
              /\ produced' = [produced EXCEPT ![c] = << >>]
              /\ gpos' = [gpos EXCEPT ![c] = "terminal"]
              /\ pc' = [pc EXCEPT ![c] = "send"]
              /\ IF script.fault
                 THEN EmitFirst(c, request.via_text, FaultEvent)
                 ELSE \E elapsed \in 0..MaxElapsed :
                        EmitFirst(c, request.via_text,
                                  CompleteEvent(request.stream, << >>, 0, elapsed))

\* lines 123-167 up to the first suspension
RealStart(c, request) ==
    \E ch \in LoadChoices(request.model) :
        LET r == load_model(request.model, ch.rel_raises, ch.rel_done, ch.load_raises)
        IN  /\ Len(r.handles) <= MaxHandles
            /\ llm' = r.llm
            /\ current_model' = r.current_model
            /\ handles' = r.handles
            /\ last_ok_model' = IF r.ret THEN request.model ELSE None
            /\ word_idx' = [word_idx EXCEPT ![c] = 0]
            /\ (LoadFailed(c, request, r) \/ Generate(c, request, r))
            /\ UNCHANGED vdevice

\* lines 90-174 up to the first suspension.  request: the arguments, the
\* entry point that was called (action) and whether text_completion stands
\* between the generator and the handler (via_text)
chat_completion(c, request) ==
    /\ stream' = [stream EXCEPT ![c] = request.stream]
    /\ handler' = [handler EXCEPT ![c] = request.action]
    /\ IF UseMock THEN MockStart(c, request) ELSE RealStart(c, request)
    /\ UNCHANGED <<HAILO_AVAILABLE, device_was_ready, failed_sends>>

\* lines 176-195 up to the first suspension
text_completion(c, prompt, model, streamed) ==
    chat_completion(c, [action |-> "generate", via_text |-> TRUE,
                        messages |-> TextMessages(prompt),
                        model |-> model, stream |-> streamed])

\* handle_request is awaiting the next message of connection c
Receiving(c) == pc[c] = "recv" /\ LoopFree

\* lines 272-273 and 304-321
handle_chat(c) ==
    /\ Receiving(c)
    /\ \E messages \in Conversations, model \in ReqModels, streamed \in BOOLEAN :
         chat_completion(c, [action |-> "chat", via_text |-> FALSE,
                             messages |-> messages,
                             model |-> model, stream |-> streamed])

\* lines 274-275 and 323-340
handle_generate(c) ==
    /\ Receiving(c)
    /\ \E prompt \in Prompts, model \in ReqModels, streamed \in BOOLEAN :
         text_completion(c, prompt, model, streamed)

\* a handler that answers with one websocket.send and starts no generation
Reply(c, name, msg, calls) ==
    /\ Receiving(c)
    /\ pc' = [pc EXCEPT ![c] = "send"]
    /\ gpos' = [gpos EXCEPT ![c] = "reply"]
    /\ handler' = [handler EXCEPT ![c] = name]
    /\ sent' = [sent EXCEPT ![c] = <<msg>>]
    /\ events' = [events EXCEPT ![c] = << >>]
    /\ route' = [route EXCEPT ![c] = "none"]
    /\ stream' = [stream EXCEPT ![c] = FALSE]
    /\ produced' = [produced EXCEPT ![c] = << >>]
    /\ Step(c, name, NoLoad, calls)
    /\ UNCHANGED <<HAILO_AVAILABLE, svc_vars, gen, word_idx, token_count, full_response,
                   failed_sends, last_ok_model, device_was_ready>>

\* lines 276-277 and 342-348
handle_list_models(c) ==
    Reply(c, "list_models", <<<<"type", "models">>, <<"data", list_models>>>>, << >>)

\* lines 278-279 and 350-364
handle_model_info(c) ==
    \E model_name \in ReqModels :
        LET info == get_model_info(model_name)
        IN  Reply(c, "model_info",
                  IF info # << >> THEN <<<<"type", "model_info">>, <<"data", info[1]>>>>
                  ELSE ModelNotFoundMessage(model_name), << >>)

\* lines 280-281 and 366-372
handle_context_usage(c) ==
    \E usage \in UsageAnswers :
        Reply(c, "context_usage", <<<<"type", "context_usage">>, <<"usage", usage>>>>,
              IF llm # NoHandle /\ HAILO_AVAILABLE
              THEN <<[op |-> "get_context_usage_size", arg |-> handles[llm].name]>>
              ELSE << >>)

\* lines 282-286: an action that is none of the five
handle_unknown(c) ==
    Reply(c, "unknown", UnknownActionMessage("ping"), << >>)

\* lines 267 and 288-293: json.loads raised JSONDecodeError
handle_invalid_json(c) ==
    Reply(c, "invalid_json", InvalidJsonMessage, << >>)

\* lines 268 and 294-299: the message is JSON but not an object, request.get
\* raises and the generic clause answers
handle_exception(c) ==
    Reply(c, "exception", NotAnObjectMessage, << >>)

\* handle_request lines 265-299: the next message arrives and is dispatched
Receive(c) ==
    \/ handle_chat(c)
    \/ handle_generate(c)
    \/ handle_list_models(c)
    \/ handle_model_info(c)
    \/ handle_context_usage(c)
    \/ handle_unknown(c)
    \/ handle_invalid_json(c)
    \/ handle_exception(c)

\* the collaborator's iterator is asked for its next token (line 146).
\* broken: the handle it runs on was released under it and the pull raises.
NextPull(g, broken) ==
    IF broken THEN "fault"
    ELSE IF g.pos < Len(g.toks) THEN "token"
    ELSE IF g.fault THEN "fault"
    ELSE "end"

\* websocket.send returned after a terminal event (line 321 / 340), or
\* after the only message of a handler that starts no generation: the
\* handler returns
ResumeTerminal(c) ==
    /\ pc[c] = "send"
    /\ gpos[c] \in {"terminal", "reply"}
    /\ Return(c)
    /\ UNCHANGED <<events, sent, produced>>

\* websocket.send returned after a mock token: line 114, asyncio.sleep
ResumeMock(c) ==
    /\ pc[c] = "send"
    /\ gpos[c] = "mock_yielded"
    /\ pc' = [pc EXCEPT ![c] = "sleep"]
    /\ UNCHANGED <<gpos, events, sent, gen, word_idx, token_count, full_response,
                   produced, handler>>

\* websocket.send returned after a real token: lines 146-167 to the next yield
ResumeReal(c, via_text) ==
    /\ pc[c] = "send"
    /\ gpos[c] = "real_yielded"
    /\ \E broken \in {FALSE, handles[gen[c].h].released} :
         LET g == gen[c]
             what == NextPull(g, broken)
         IN  IF what = "token"
             THEN LET token == g.toks[g.pos + 1]
                  IN  /\ gen' = [gen EXCEPT ![c].pos = g.pos + 1]
                      /\ token_count' = [token_count EXCEPT ![c] = @ + 1]
                      /\ full_response' = [full_response EXCEPT ![c] = @ \o token]
                      /\ Emit(c, via_text, TokenEvent(token))
                      /\ produced' = [produced EXCEPT ![c] = Append(@, token)]
                      /\ UNCHANGED gpos
             ELSE /\ gpos' = [gpos EXCEPT ![c] = "terminal"]
                  /\ UNCHANGED <<gen, token_count, full_response, produced>>
                  /\ IF what = "fault"
                     THEN Emit(c, via_text, FaultEvent)
                     ELSE \E elapsed \in 0..MaxElapsed :
                            Emit(c, via_text, CompleteEvent(stream[c], full_response[c],
                                                            token_count[c], elapsed))
    /\ UNCHANGED <<pc, word_idx, handler>>

\* websocket.send has returned
ResumeVia(c, via_text) ==
    /\ LoopFree
    /\ (ResumeTerminal(c) \/ ResumeMock(c) \/ ResumeReal(c, via_text))
    /\ Step(c, "resume", NoLoad, << >>)
    /\ UNCHANGED <<HAILO_AVAILABLE, svc_vars, stream, route, failed_sends, last_ok_model,
                   device_was_ready>>

Resume(c) == ResumeVia(c, handler[c] = "generate")

\* asyncio.sleep has returned: the loop of line 108 goes on or ends (line 121)
WakeVia(c, via_text) ==
    /\ LoopFree
    /\ pc[c] = "sleep"
    /\ LET words == Split(mock_response)
       IN  IF word_idx[c] < Len(words)
           THEN /\ word_idx' = [word_idx EXCEPT ![c] = @ + 1]
                /\ Emit(c, via_text, TokenEvent(MockTokenContent(words[word_idx[c] + 1])))
                /\ pc' = [pc EXCEPT ![c] = "send"]
                /\ UNCHANGED <<gpos, gen, token_count, full_response, handler>>
           ELSE /\ Return(c)
                /\ UNCHANGED <<events, sent>>
    /\ Step(c, "wake", NoLoad, << >>)
    /\ UNCHANGED <<HAILO_AVAILABLE, svc_vars, stream, route, produced, failed_sends,
                   last_ok_model, device_was_ready>>

Wake(c) == WakeVia(c, handler[c] = "generate")

\* stream = False: the loop of lines 146-148 runs to its end without giving
\* up control, then the terminal event is yielded (lines 158-167 or 169-174)
RunLoopVia(c, via_text) ==
    /\ pc[c] = "run"
    /\ LET g == gen[c]
           got == Consume(g.toks, 0, << >>)
       IN  /\ gen' = [gen EXCEPT ![c].pos = Len(g.toks)]
           /\ token_count' = [token_count EXCEPT ![c] = got.count]
           /\ full_response' = [full_response EXCEPT ![c] = got.full]
           /\ produced' = [produced EXCEPT ![c] = g.toks]
           /\ IF g.fault
              THEN Emit(c, via_text, FaultEvent)
              ELSE \E elapsed \in 0..MaxElapsed :
                     Emit(c, via_text, CompleteEvent(stream[c], got.full, got.count, elapsed))
    /\ gpos' = [gpos EXCEPT ![c] = "terminal"]
    /\ pc' = [pc EXCEPT ![c] = "send"]
    /\ Step(c, "run", NoLoad, << >>)
    /\ UNCHANGED <<HAILO_AVAILABLE, svc_vars, stream, route, word_idx, handler,
                   failed_sends, last_ok_model, device_was_ready>>

RunLoop(c) == RunLoopVia(c, handler[c] = "generate")

\* websocket.send calls that raise ConnectionClosed once the peer is gone.
\* A send made by a handler (lines 283, 321, 340, 345, 356, 361, 369) raises
\* inside the try of line 266: the clause of line 294 catches it and calls
\* websocket.send again (line 296), which raises into the clause of line
\* 301.  A send made by an except clause (lines 290, 296) raises straight
\* into the clause of line 301.
RaisedSends(c) ==
    CASE pc[c] = "recv" -> 0
      [] pc[c] = "send" -> IF handler[c] \in {"invalid_json", "exception"} THEN 1 ELSE 2
      [] pc[c] = "sleep" -> IF word_idx[c] < Len(Split(mock_response)) THEN 2 ELSE 0

\* the peer closes connection c while its task is suspended: the iteration
\* of line 265 ends, or the pending or next websocket.send raises
\* ConnectionClosed; handle_request returns (lines 301-302) and the
\* generator of the request is dropped
ConnectionClosed(c) ==
    /\ LoopFree
    /\ pc[c] \in {"recv", "send", "sleep"}
    /\ failed_sends' = [failed_sends EXCEPT ![c] = RaisedSends(c)]
    /\ pc' = [pc EXCEPT ![c] = "ended"]
    /\ gpos' = [gpos EXCEPT ![c] = "done"]
    /\ gen' = [gen EXCEPT ![c] = NoGen]
    /\ word_idx' = [word_idx EXCEPT ![c] = 0]
    /\ token_count' = [token_count EXCEPT ![c] = 0]
    /\ full_response' = [full_response EXCEPT ![c] = << >>]
    /\ EmitNothing(c)
    /\ route' = [route EXCEPT ![c] = "none"]
    /\ stream' = [stream EXCEPT ![c] = FALSE]
    /\ produced' = [produced EXCEPT ![c] = << >>]
    /\ Step(c, "closed", NoLoad, << >>)
    /\ UNCHANGED <<HAILO_AVAILABLE, svc_vars, handler, last_ok_model, device_was_ready>>

----------------------------------------------------------------------------
(* Direct calls of the HailoService API by the embedding program           *)

LoadModelCall ==
    /\ LoopFree
    /\ \E model_name \in ModelNames :
      \E ch \in LoadChoices(model_name) :
        LET r == load_model(model_name, ch.rel_raises, ch.rel_done, ch.load_raises)
        IN  /\ Len(r.handles) <= MaxHandles
            /\ llm' = r.llm
            /\ current_model' = r.current_model
            /\ handles' = r.handles
            /\ last_ok_model' = IF r.ret THEN model_name ELSE None
            /\ Step(Driver, "load_model", LoadInfo(model_name, r), r.calls)
            /\ UNCHANGED <<HAILO_AVAILABLE, vdevice, conn_vars, device_was_ready>>

\* the ways the collaborator can answer the calls release() makes
ReleaseChoices ==
    {[llm_raises |-> FALSE, llm_done |-> FALSE, dev_raises |-> b] :
        b \in (IF vdevice # None THEN BOOLEAN ELSE {FALSE})}
    \cup (IF llm # NoHandle
          THEN {[llm_raises |-> TRUE, llm_done |-> b, dev_raises |-> FALSE] : b \in BOOLEAN}
          ELSE {})

\* WebSocketServer.cleanup (line 385) or a direct call
ReleaseCall ==
    /\ LoopFree
    /\ \E ch \in ReleaseChoices :
        LET r == release(ch.llm_raises, ch.llm_done, ch.dev_raises)
        IN  /\ llm' = r.llm
            /\ vdevice' = r.vdevice
            /\ handles' = r.handles
            /\ last_ok_model' = None
            /\ Step(Driver, IF r.raised THEN "release_raised" ELSE "release", NoLoad, r.calls)
            /\ UNCHANGED <<HAILO_AVAILABLE, current_model, conn_vars, device_was_ready>>

----------------------------------------------------------------------------

\* module import (lines 16-22) and HailoService.__init__ (lines 35-49)
Init ==
    /\ HAILO_AVAILABLE \in BOOLEAN
    /\ vdevice \in (IF HAILO_AVAILABLE THEN {"vdevice", None} ELSE {None})
    /\ device_was_ready = (vdevice # None)
    /\ llm = NoHandle
    /\ current_model = None
    /\ handles = << >>
    /\ pc = [c \in Conns |-> "recv"]
    /\ stream = [c \in Conns |-> FALSE]
    /\ gpos = [c \in Conns |-> "done"]
    /\ events = [c \in Conns |-> << >>]
    /\ sent = [c \in Conns |-> << >>]
    /\ handler = [c \in Conns |-> "none"]
    /\ failed_sends = [c \in Conns |-> 0]
    /\ gen = [c \in Conns |-> NoGen]
    /\ word_idx = [c \in Conns |-> 0]
    /\ token_count = [c \in Conns |-> 0]
    /\ full_response = [c \in Conns |-> << >>]
    /\ route = [c \in Conns |-> "none"]
    /\ produced = [c \in Conns |-> << >>]
    /\ last = [actor |-> Driver, op |-> "init", load |-> NoLoad, calls |-> << >>]
    /\ last_ok_model = None

\* the server as shipped: connections are served until they close or
\* cleanup runs
Next ==
    \/ \E c \in Conns : Receive(c)
    \/ \E c \in Conns : Resume(c)
    \/ \E c \in Conns : Wake(c)
    \/ \E c \in Conns : ConnectionClosed(c)
    \/ ReleaseCall

Spec == Init /\ [][Next]_vars

\* HailoService driven through its public methods by an embedding program
\* while one connection is served
NextApi ==
    \/ handle_chat("c1")
    \/ Resume("c1")
    \/ Wake("c1")
    \/ RunLoop("c1")
    \/ LoadModelCall
    \/ ReleaseCall

SpecApi == Init /\ [][NextApi]_vars

\* the device came up in __init__ (lines 42-46)
InitReady == Init /\ HAILO_AVAILABLE /\ vdevice # None

\* the embedding program loads a model before any request is served
Preload ==
    /\ \A c \in Conns : route[c] = "none" /\ sent[c] = << >>
    /\ LoadModelCall

\* a chat request that arrives while a model is loaded
ChatWhileLoaded(c) == ~UseMock /\ handle_chat(c)

\* two connections making chat requests of a HailoService on which
\* load_model was called before serving began; requests arrive while a
\* model is loaded
NextShared ==
    \/ \E c \in Conns : ChatWhileLoaded(c)
    \/ \E c \in Conns : Resume(c)
    \/ \E c \in Conns : RunLoop(c)
    \/ Preload

SpecShared == InitReady /\ [][NextShared]_vars

\* one connection making chat requests while another asks for the list of
\* models and for model information
NextQuery ==
    \/ handle_chat("c1")
    \/ Resume("c1")
    \/ Wake("c1")
    \/ RunLoop("c1")
    \/ handle_list_models("c2")
    \/ handle_model_info("c2")
    \/ Resume("c2")
    \/ Preload

SpecQuery == InitReady /\ [][NextQuery]_vars

\* one connection making generate requests, with or without a model loaded
\* before serving began
NextText ==
    \/ handle_generate("c1")
    \/ Resume("c1")
    \/ Wake("c1")
    \/ RunLoop("c1")
    \/ Preload

SpecText == Init /\ [][NextText]_vars

\* one connection sending every kind of message until its peer closes it,
\* with or without a model loaded before serving began
NextConn ==
    \/ Receive("c1")
    \/ Resume("c1")
    \/ Wake("c1")
    \/ RunLoop("c1")
    \/ ConnectionClosed("c1")
    \/ Preload

SpecConn == Init /\ [][NextConn]_vars

----------------------------------------------------------------------------
(* Properties *)

Terminal(ev) == ev.type \in {"complete", "error"}

\* the request of connection c has run to its end
Ended(c) == pc[c] = "recv" /\ route[c] # "none"

TokenContents(evs) ==
    LET toks == SelectSeq(evs, LAMBDA ev : ev.type = "token")
    IN  [i \in 1..Len(toks) |-> toks[i].content]

CallOps(calls) == {calls[i].op : i \in 1..Len(calls)}

\* C1: the events of one chat/generate request are zero or more 'token'
\* events followed by exactly one terminal event ('complete' or 'error'):
\* never empty, never without a terminal event, never two terminal events.
C1_TokensThenOneTerminal ==
    \A c \in Conns :
        /\ \A i \in 1..Len(events[c]) : Terminal(events[c][i]) => i = Len(events[c])
        /\ Ended(c) => /\ events[c] # << >>
                       /\ Terminal(events[c][Len(events[c])])

\* connection a has begun pulling tokens of a real generation and has not
\* yet emitted its terminal event
InFlight(a) == pc[a] = "send" /\ gpos[a] = "real_yielded"

\* C2: while the streaming generation of one connection is in flight, a
\* request on another connection does not execute load_model's release or
\* load of the shared llm handle: at most one activate or run is in flight.
C2_NoLoadWhileInFlight ==
    \A a \in Conns :
        (InFlight(a) /\ last.actor \in Conns \ {a})
            => CallOps(last.calls) \cap {"llm.release", "LLM"} = {}

\* C3: the mock generator drives a request only when the device was never
\* made available; with the device initialised every request, the first
\* one included, goes through load_model.
C3_MockOnlyWithoutDevice ==
    \A c \in Conns : route[c] = "mock" => ~device_was_ready

\* C4: in mock mode a stream=true request yields one 'token' event per word
\* of the mock sentence, in word order, and then a single 'complete' event
\* whose content is the empty string.
C4_MockStreamThenComplete ==
    \A c \in Conns :
        (Ended(c) /\ route[c] = "mock" /\ stream[c]) =>
            LET words == Split(mock_response)
                n == Len(words)
            IN  /\ Len(events[c]) = n + 1
                /\ \A i \in 1..n :
                      /\ events[c][i].type = "token"
                      /\ SubSeq(events[c][i].content, 1, Len(words[i])) = words[i]
                /\ events[c][n + 1].type = "complete"
                /\ events[c][n + 1].content = << >>

\* C5: a stream=false request emits no 'token' event, and the content of
\* its 'complete' event is the concatenation, in order, of the 'token'
\* contents the same request emits with stream=true (mock and real mode).
C5_NonStreamEqualsStreamed ==
    /\ \A c \in Conns :
          (route[c] # "none" /\ ~stream[c]) => TokenContents(events[c]) = << >>
    /\ \A c1, c2 \in Conns :
          ( /\ Ended(c1) /\ Ended(c2)
            /\ stream[c1] /\ ~stream[c2]
            /\ route[c1] = route[c2] /\ route[c1] \in {"mock", "real"}
            /\ produced[c1] = produced[c2]
            /\ \A i \in 1..Len(events[c1]) : events[c1][i].type # "error"
            /\ events[c2] # << >>
            /\ events[c2][Len(events[c2])].type = "complete" )
          => events[c2][Len(events[c2])].content = Concat(TokenContents(events[c1]))

\* the collaborator's LLM objects that have not been released
Unreleased == {h \in 1..Len(handles) : ~handles[h].released}

\* C6: llm is set only if current_model is set and is the name under which
\* that handle was loaded; at most one unreleased model handle exists; a
\* model handle exists only while vdevice is set.
C6_ContextInvariant ==
    /\ llm # NoHandle => (current_model # None /\ current_model = handles[llm].name)
    /\ Cardinality(Unreleased) <= 1
    /\ (llm # NoHandle \/ Unreleased # {}) => vdevice # None

C6_Witness ==
    /\ last.op = "release_raised"
    /\ llm # NoHandle
    /\ Len(handles) = 2

\* C7: when load_model(B) is called while another model A is active and
\* the load of B raises, the context is left with no active model: llm and
\* current_model are both unset.
C7_FailedLoadUnsetsModel ==
    (last.load.outcome = "load_raised" /\ last.load.was_active \notin {None, last.load.name})
        => (llm = NoHandle /\ current_model = None)

\* C8: load_model(M) called right after a successful load_model(M), with
\* no load_model of another model and no release in between, makes no
\* release and no load, returns success and leaves llm and current_model
\* as they were.
C8_SecondLoadIsNoOp ==
    [][ last'.load.repeat =>
           /\ last'.load.ret
           /\ CallOps(last'.calls) \cap {"llm.release", "LLM"} = {}
           /\ llm' = llm
           /\ current_model' = current_model
           /\ handles' = handles ]_vars

C8_Witness ==
    /\ last.load.repeat
    /\ last.load.outcome = "cached"
    /\ llm # NoHandle

\* C9: when model A is active and load_model(B) is called for another
\* configured model B whose artifact exists, release(A) is called before
\* load(B), and B's handle is not created while A's is unreleased.
C9_ReleaseBeforeLoad ==
    ( /\ last.load.was_active \notin {None, last.load.name}
      /\ last.load.outcome \in {"release_raised", "load_raised", "loaded"} )
    => /\ last.calls # << >>
       /\ last.calls[1] = [op |-> "llm.release", arg |-> last.load.was_active]
       /\ \A i \in 1..Len(last.calls) :
             last.calls[i].op = "LLM" => (i = 2 /\ last.calls[i].arg = last.load.name)
       /\ last.load.outcome = "loaded" =>
             /\ "LLM" \in CallOps(last.calls)
             /\ \A h \in 1..Len(handles) : h # llm => handles[h].released

C9_Witness ==
    /\ last.load.outcome = "loaded"
    /\ last.load.was_active = "A"
    /\ last.load.name = "B"

\* C10: release() releases the model handle if present and then the device
\* handle if present, and attempts the device release even when the model
\* release raised: no device handle that was present is left unreleased.
C10_DeviceReleasedAfterShutdown ==
    last.op \in {"release", "release_raised"} =>
        /\ vdevice # None => "vdevice.release" \in CallOps(last.calls)
        /\ \A i, j \in 1..Len(last.calls) :
              (last.calls[i].op = "llm.release" /\ last.calls[j].op = "vdevice.release") => i < j

\* C11: a message that is not JSON is answered with exactly one message,
\* the 'error' event whose content is 'Invalid JSON request'; handling it
\* leaves vdevice, llm, current_model and the model handles as they were;
\* and once that message is sent the handler awaits the next message of the
\* same connection, which ends only if the peer closes it.
C11_MalformedAnswered ==
    [][ \A c \in Conns :
          /\ (last'.actor = c /\ last'.op = "invalid_json") =>
                /\ sent'[c] = << <<<<"type", "error">>,
                                   <<"content", <<"Invalid JSON request">>>>>> >>
                /\ events'[c] = << >>
                /\ pc'[c] = "send"
                /\ UNCHANGED svc_vars
          /\ (handler[c] = "invalid_json" /\ last'.actor = c /\ last'.op # "closed") =>
                /\ pc'[c] = "recv"
                /\ sent'[c] = sent[c]
                /\ UNCHANGED svc_vars ]_vars

C11_Witness ==
    /\ handler["c1"] = "invalid_json"
    /\ pc["c1"] = "send"
    /\ llm # NoHandle
    /\ Len(sent["c1"]) = 1

\* the consumer's json.loads of a message, as a dict of the shape of Events
HasKey(msg, key) == \E i \in 1..Len(msg) : msg[i][1] = key
ValueOf(msg, key) == msg[CHOOSE i \in 1..Len(msg) : msg[i][1] = key][2]

Decode(msg) ==
    [type |-> ValueOf(msg, "type"),
     content |-> ValueOf(msg, "content"),
     done |-> IF ~HasKey(msg, "done") THEN "absent"
              ELSE IF ValueOf(msg, "done") = "true" THEN "True" ELSE "False",
     stats |-> IF ~HasKey(msg, "eval_count") THEN << >>
               ELSE <<ValueOf(msg, "eval_count"), ValueOf(msg, "eval_duration"),
                      ValueOf(msg, "total_duration")>>]

\* C12: on a connection that is open, the messages sent for a chat or
\* generate request are, one for one and in the same order, the events the
\* Generation Session has yielded for it: none is dropped, duplicated or
\* reordered, and no 'token' message comes after a terminal message.
C12_OneMessagePerEventInOrder ==
    \A c \in Conns :
        (route[c] # "none" /\ pc[c] # "ended") =>
            /\ Len(sent[c]) = Len(events[c])
            /\ \A i \in 1..Len(sent[c]) : Decode(sent[c][i]) = events[c][i]
            /\ \A i, j \in 1..Len(sent[c]) :
                  (i < j /\ Terminal(Decode(sent[c][i]))) => Decode(sent[c][j]).type # "token"

C12_Witness ==
    /\ route["c1"] = "real"
    /\ stream["c1"]
    /\ Len(sent["c1"]) = MaxTokens + 1
    /\ Decode(sent["c1"][1]).type = "token"
    /\ Decode(sent["c1"][MaxTokens + 1]).type = "complete"

\* a message that ends a request: the terminal event of a chat or generate
\* request, or the one answer of any other request
FinalMessage(msg) ==
    ValueOf(msg, "type") \in {"complete", "error", "models", "model_info", "context_usage"}

\* connection c has been given a request before
Served(c) == route[c] # "none" \/ sent[c] # << >>

\* C13: on one connection the handler takes up the next inbound message
\* only when it is awaiting a message, and, if a request came before, only
\* after the terminal event of that request has been sent: the messages of
\* two requests of a connection never interleave.
C13_SequentialRequests ==
    [][ \A c \in Conns :
          (last'.actor = c /\ last'.op \notin {"resume", "wake", "run", "closed"}) =>
              /\ pc[c] = "recv"
              /\ Served(c) => /\ sent[c] # << >>
                              /\ FinalMessage(sent[c][Len(sent[c])]) ]_vars

\* C14: when the peer closes a connection during a chat or generate
\* session, the websocket.send that meets the closed connection raises and
\* is the last one called on it: the handler ends with the session dropped
\* and without another send being attempted, as a retry or as a new event.
C14_NoSendAfterClose ==
    \A c \in Conns :
        (pc[c] = "ended" /\ handler[c] \in {"chat", "generate"}) =>
            /\ failed_sends[c] <= 1
            /\ gen[c] = NoGen
            /\ sent[c] = << >>

\* C15: when load_model returns failure for a request (the model is not
\* configured, its artifact is missing, or the release or the load raised),
\* the request yields exactly one event, an 'error' whose content names the
\* requested model, and no 'token' or 'complete' event.
C15_LoadFailureOneError ==
    \A c \in Conns :
        /\ (last.actor = c /\ last.load.name # None /\ ~last.load.ret) =>
              /\ route[c] = "load_failed"
              /\ \E i \in 1..Len(events[c][1].content) :
                    events[c][1].content[i] = last.load.name
        /\ route[c] = "load_failed" =>
              /\ Len(events[c]) = 1
              /\ events[c][1].type = "error"
              /\ gen[c] = NoGen

C15_Witness ==
    /\ last.actor = "c1"
    /\ last.load.outcome = "load_raised"
    /\ last.load.name = "B"
    /\ route["c1"] = "load_failed"
    /\ events["c1"] # << >>

\* C16: from any state, what text_completion(prompt, model, stream) does
\* up to its first suspension and at each later step (the events handed to
\* the handler, the calls made on the collaborator, and the changes to llm,
\* current_model and the model handles) is exactly what chat_completion does
\* when called with the conversation [{role: 'user', content: prompt}] and
\* the same model and stream.
C16_TextEqualsChatOnWrapped ==
    [][ \A c \in Conns :
          /\ (last'.actor = c /\ last'.op = "generate") =>
                \A prompt \in Prompts, model \in ReqModels, streamed \in BOOLEAN :
                   text_completion(c, prompt, model, streamed)
                   <=> chat_completion(c, [action |-> "generate", via_text |-> FALSE,
                                           messages |-> <<[role |-> "user", content |-> prompt]>>,
                                           model |-> model, stream |-> streamed])
          /\ (last'.actor = c /\ handler[c] = "generate") =>
                /\ ResumeVia(c, TRUE) <=> ResumeVia(c, FALSE)
                /\ WakeVia(c, TRUE) <=> WakeVia(c, FALSE)
                /\ RunLoopVia(c, TRUE) <=> RunLoopVia(c, FALSE) ]_vars

C16_Witness ==
    /\ last.actor = "c1"
    /\ last.op = "generate"
    /\ route["c1"] = "real"
    /\ last.load.outcome = "loaded"
    /\ \E i \in 1..Len(last.calls) :
          last.calls[i] = [op |-> "generate",
                           arg |-> <<[role |-> "user", content |-> Prompt]>>]

\* a chat or generate request of connection a has begun generating and has
\* not yet yielded its terminal event
Generating(a) ==
    /\ pc[a] \in {"run", "send", "sleep"}
    /\ route[a] \in {"mock", "real"}
    /\ \A i \in 1..Len(events[a]) : ~Terminal(events[a][i])

\* C17: whenever a generation is in flight on one connection, with
\* stream=true or stream=false, a list_models or model_info message that
\* has arrived on another connection, whose handler is awaiting a message,
\* can be handled at once: the generation does not hold the event loop.
C17_QueriesNotBlocked ==
    \A a, b \in Conns :
        (a # b /\ Generating(a) /\ pc[b] = "recv") =>
            /\ ENABLED handle_list_models(b)
            /\ ENABLED handle_model_info(b)

\* the tokens produced for the request of connection c: the words of the
\* mock sentence in mock mode, else what the collaborator handed over
TokensProduced(c) ==
    IF route[c] = "mock"
    THEN [i \in 1..Len(Split(mock_response)) |-> MockTokenContent(Split(mock_response)[i])]
    ELSE produced[c]

\* C18: every 'complete' event carries eval_count, eval_duration and
\* total_duration; eval_count is the number of tokens produced for the
\* request, streamed or not; eval_duration equals total_duration; content
\* is the empty string when stream=true and the accumulated text when
\* stream=false.
C18_CompleteCarriesCounts ==
    \A c \in Conns :
        \A i \in 1..Len(events[c]) :
            events[c][i].type = "complete" =>
                /\ events[c][i].stats # << >>
                /\ events[c][i].stats[1] = Len(TokensProduced(c))
                /\ events[c][i].stats[2] = events[c][i].stats[3]
                /\ stream[c] => events[c][i].content = << >>
                /\ ~stream[c] => \/ events[c][i].content = Concat(TokensProduced(c))
                                 \/ route[c] = "mock" /\ events[c][i].content = mock_response

\* evs is what a request whose generation faulted must have yielded: the
\* tokens handed over before the fault if it streams, none if it does not,
\* then the one 'error' event with the fault's description
FaultShape(evs, toks, streamed) ==
    LET n == Len(evs)
    IN  /\ n >= 1
        /\ evs[n] = [type |-> "error", content |-> <<"generation failed">>,
                     done |-> "absent", stats |-> << >>]
        /\ \A i \in 1..(n - 1) : evs[i].type = "token"
        /\ TokenContents(evs) = (IF streamed THEN toks ELSE << >>)

\* the generation of connection c was ended by a fault of the collaborator
Faulted(c) == route[c] = "real" /\ gpos[c] = "terminal" /\ gen[c].fault

\* C19: the step in which a pull of the next token faults leaves the
\* request with its tokens so far followed by exactly one 'error' event
\* carrying the fault's description, and no 'complete'; it changes nothing
\* of any other connection; and when that event is sent the handler goes
\* back to awaiting the next message, with llm, current_model and the
\* handles as they were, so later requests are served as usual.
C19_FaultIsOneError ==
    [][ \A c \in Conns :
          /\ (last'.actor = c /\ Faulted(c)' /\ ~Faulted(c)) =>
                /\ FaultShape(events'[c], produced'[c], stream'[c])
                /\ pc'[c] = "send"
                /\ \A d \in Conns \ {c} :
                      /\ pc'[d] = pc[d] /\ gpos'[d] = gpos[d] /\ gen'[d] = gen[d]
                      /\ events'[d] = events[d] /\ sent'[d] = sent[d]
                      /\ handler'[d] = handler[d]
          /\ (last'.actor = c /\ Faulted(c)) =>
                /\ pc'[c] = "recv"
                /\ events'[c] = events[c]
                /\ sent'[c] = sent[c]
                /\ UNCHANGED svc_vars ]_vars

C19_Witness ==
    /\ route["c1"] = "real"
    /\ pc["c1"] = "recv"
    /\ Len(events["c1"]) = MaxTokens + 1
    /\ events["c1"][MaxTokens + 1] = FaultEvent
    /\ last.actor = "c2"
    /\ last.op = "list_models"
    /\ sent["c2"] # << >>

\* load_model(name) cannot pass the checks of lines 53-71: the device is
\* unavailable, or name is not configured, or its artifact path is empty or
\* names no file
FailsValidation(name) ==
    \/ ~HAILO_AVAILABLE
    \/ vdevice = None
    \/ name \notin {"A", "B", "Y", "Z"}
    \/ models_config[name].hef_path \notin {"/a.hef", "/b.hef"}

\* C20: a load_model(name) call, direct or made for a request, that fails
\* validation returns failure, calls neither release nor load on the
\* collaborator, and leaves llm, current_model, the model handles and the
\* device as they were: a model that was active stays loaded.
C20_FailedValidationChangesNothing ==
    [][ (last'.load.name # None /\ FailsValidation(last'.load.name)) =>
           /\ ~last'.load.ret
           /\ CallOps(last'.calls) \cap {"llm.release", "LLM", "vdevice.release"} = {}
           /\ llm' = llm
           /\ current_model' = current_model
           /\ handles' = handles
           /\ vdevice' = vdevice ]_vars

C20_Witness ==
    /\ last.load.outcome = "hef_missing"
    /\ last.load.name = "Y"
    /\ last.load.was_active = "A"
    /\ llm # NoHandle
    /\ current_model = "A"
    /\ ~handles[llm].released

====
